---- MODULE Spec2Model ----
(***************************************************************************)
(* Request pipeline of vue-fastapi-admin: the per-request context          *)
(* variables (app/core/ctx.py), the background-task queue                  *)
(* (app/core/bgtask.py), authentication and permission dependencies        *)
(* (app/core/dependency.py) and the two middlewares                        *)
(* (app/core/middlewares.py).                                              *)
(*                                                                         *)
(* Every HTTP request is served by its own asyncio task, so a ContextVar   *)
(* holds one value per request; the model keeps each ContextVar as a       *)
(* function from requests to values.  A BackgroundTasks object is named    *)
(* after the request whose before-hook created it.                         *)
(***************************************************************************)
EXTENDS Integers, Sequences, FiniteSets, TLC

\* ---------------------------------------------------------------- bounds
MaxTasks == 2          \* add_task calls one handler makes at most
MaxUsers == 2          \* ids the datastore may hold: 1..MaxUsers

Requests == {"R1", "R2"}
UserIds == 1..MaxUsers
Methods == {"GET", "POST"}
\* A path is its sequence of characters: "/w" and "/w/1".
Paths == {<<"/", "w">>, <<"/", "w", "/", "1">>}
Roles == {"ra"}

\* A token header value.  "none" stands for a request without the header.
\* "tok" tokens are validly signed and carry the claim user_id.
TokUser == [u \in UserIds |-> <<"tok", u>>]
Tokens == {<<"dev", 0>>, <<"bad", 0>>, <<"expired", 0>>, <<"other", 0>>, <<"none", 0>>}
            \cup {TokUser[u] : u \in UserIds}

NoUser == 0            \* falsy user / default of CTX_USER_ID
NoObj == "None"        \* default of CTX_BG_TASKS

VARIABLES
    users,          \* ids of the rows of the User table
    superusers,     \* ids whose is_superuser is true
    userRoles,      \* user id -> set of roles
    roleApis,       \* role -> set of <<method, path>>
    pc,             \* request -> position in the pipeline
    req,            \* request -> [method, path, token, protected]
    CTX_USER_ID,    \* request -> value of the context variable in its task
    CTX_BG_TASKS,   \* request -> BackgroundTasks object in its context
    queues,         \* object -> its .tasks list (object named by creator)
    authResult,     \* request -> outcome of Depends(AuthControl.is_authed)
    permResult,     \* request -> outcome of PermissionControl.has_permission
    response,       \* request -> status of the response produced (0: none)
    sent,           \* request -> status the client received (0: none)
    ran,            \* request -> tasks its execute_tasks calls have run
    raised,         \* request -> tasks that raised while it ran them
    escaped,        \* request -> exception that left the middleware stack
    auditLog,       \* sequence of persisted AuditLog rows
    requestArgs,    \* request -> request.state.request_args
    bodyIter,       \* request -> chunks response.body_iterator still yields
    origBody,       \* request -> chunks the handler or error handler produced
    declared,       \* request -> Content-Length of the response (0: absent)
    clientBody,     \* request -> bytes the client received
    replaced        \* request -> response.body_iterator was reassigned

vars == <<users, superusers, userRoles, roleApis, pc, req, CTX_USER_ID,
          CTX_BG_TASKS, queues, authResult, permResult, response, sent,
          ran, raised, escaped, auditLog, requestArgs, bodyIter, origBody,
          declared, clientBody, replaced>>

datastore == <<users, superusers, userRoles, roleApis>>

\* What the audit middleware reads and writes of a request and response.
payload == <<requestArgs, bodyIter, origBody, declared, clientBody, replaced>>

\* ------------------------------------------------------------ ctx.py
\* ContextVar.set inside the task of request r: only r's context changes.
CtxSetShared(ctx, r, v) == [q \in DOMAIN ctx |-> v]
CtxSet(ctx, r, v) == [ctx EXCEPT ![r] = v]

CtxGet(ctx, r) == ctx[r]

\* ------------------------------------------------------- datastore
\* User.filter().first(): rows ordered by primary key, None when empty.
Min(S) == CHOOSE x \in S : \A y \in S : x <= y
FirstUser(us) == IF us = {} THEN NoUser ELSE Min(us)

\* User.filter(id=user_id).first()
FindUser(us, id) == IF id \in us THEN id ELSE NoUser

\* ------------------------------------------------------- jwt.decode
\* Outcome of jwt.decode(token, SECRET_KEY, algorithms=...).
Decode(token) ==
    CASE token[1] = "tok"     -> [exc |-> "", user_id |-> token[2]]
      [] token[1] = "expired" -> [exc |-> "ExpiredSignatureError", user_id |-> NoUser]
      [] token[1] = "other"   -> [exc |-> "InvalidAlgorithmError", user_id |-> NoUser]
      [] OTHER                -> [exc |-> "DecodeError", user_id |-> NoUser]

\* ------------------------------------------------ dependency.py
AuthOk(u) ==
    [status |-> 200, detail |-> "", user |-> u, decoded |-> FALSE]
AuthFail(s, d) ==
    [status |-> s, detail |-> d, user |-> NoUser, decoded |-> FALSE]

\* The except clauses of is_authed, applied to the exception raised in
\* the try block.
IsAuthedExceptNoExpired(exc) ==
    CASE exc = "DecodeError" -> AuthFail(401, "invalid token")
      [] OTHER               -> AuthFail(500, exc)
IsAuthedExcept(exc) ==
    CASE exc = "DecodeError"           -> AuthFail(401, "invalid token")
      [] exc = "ExpiredSignatureError" -> AuthFail(401, "login expired")
      [] OTHER                         -> AuthFail(500, exc)

\* The try block of is_authed; "decoded" tells whether jwt.decode ran.
IsAuthedNoBypass(token, us) ==
    LET d == Decode(token) IN
    IF d.exc # ""
    THEN [IsAuthedExcept(d.exc) EXCEPT !.decoded = TRUE]
    ELSE IF FindUser(us, d.user_id) = NoUser
         THEN [IsAuthedExcept("HTTPException(401)") EXCEPT !.decoded = TRUE]
         ELSE [AuthOk(d.user_id) EXCEPT !.decoded = TRUE]
IsAuthed(token, us) ==
    IF token[1] = "dev"
    THEN LET user == FirstUser(us) IN
         IF user = NoUser
         THEN IsAuthedExcept("AttributeError")
         ELSE IF FindUser(us, user) = NoUser
              THEN IsAuthedExcept("HTTPException(401)")
              ELSE AuthOk(user)
    ELSE LET d == Decode(token) IN
         IF d.exc # ""
         THEN [IsAuthedExcept(d.exc) EXCEPT !.decoded = TRUE]
         ELSE IF FindUser(us, d.user_id) = NoUser
              THEN [IsAuthedExcept("HTTPException(401)") EXCEPT !.decoded = TRUE]
              ELSE [AuthOk(d.user_id) EXCEPT !.decoded = TRUE]

\* CTX_USER_ID.set(int(user_id)) is reached only on the success path.
PublishUser(ctx, r, res) ==
    IF res.status = 200 THEN CtxSet(ctx, r, res.user) ELSE ctx

PermOk(rf, af) ==
    [status |-> 200, detail |-> "", rolesFetched |-> rf, apisFetched |-> af]
PermDenied(d, rf, af) ==
    [status |-> 403, detail |-> d, rolesFetched |-> rf, apisFetched |-> af]

\* PermissionControl.has_permission for the identity current_user.
HasPermissionRolesFirst(user, method, path, supers, uroles, rapis) ==
    LET roles == uroles[user]
        permission_apis == UNION {rapis[role] : role \in roles}
    IN IF roles = {}
       THEN PermDenied("The user is not bound to a role", TRUE, {})
       ELSE IF user \in supers
            THEN PermOk(TRUE, {})
            ELSE IF <<method, path>> \notin permission_apis
                 THEN PermDenied("Permission denied", TRUE, roles)
                 ELSE PermOk(TRUE, roles)
HasPermissionNoRoleCheck(user, method, path, supers, uroles, rapis) ==
    IF user \in supers
    THEN PermOk(FALSE, {})
    ELSE LET roles == uroles[user]
             permission_apis == UNION {rapis[role] : role \in roles}
         IN IF <<method, path>> \notin permission_apis
            THEN PermDenied("Permission denied", TRUE, roles)
            ELSE PermOk(TRUE, roles)
HasPermissionByPrefix(user, method, path, supers, uroles, rapis) ==
    IF user \in supers
    THEN PermOk(FALSE, {})
    ELSE LET roles == uroles[user]
             permission_apis == UNION {rapis[role] : role \in roles}
         IN IF roles = {}
            THEN PermDenied("The user is not bound to a role", TRUE, {})
            ELSE IF ~ \E api \in permission_apis :
                        /\ api[1] = method
                        /\ Len(api[2]) <= Len(path)
                        /\ SubSeq(path, 1, Len(api[2])) = api[2]
                 THEN PermDenied("Permission denied", TRUE, roles)
                 ELSE PermOk(TRUE, roles)
HasPermission(user, method, path, supers, uroles, rapis) ==
    IF user \in supers
    THEN PermOk(FALSE, {})
    ELSE LET roles == uroles[user]
             permission_apis == UNION {rapis[role] : role \in roles}
         IN IF roles = {}
            THEN PermDenied("The user is not bound to a role", TRUE, {})
            ELSE IF <<method, path>> \notin permission_apis
                 THEN PermDenied("Permission denied", TRUE, roles)
                 ELSE PermOk(TRUE, roles)

NoAuth == [status |-> 0, detail |-> "", user |-> NoUser, decoded |-> FALSE]
NoPerm == [status |-> 0, detail |-> "", rolesFetched |-> FALSE, apisFetched |-> {}]
NoReq == [method |-> "GET", path |-> <<>>, token |-> <<"none", 0>>,
          protected |-> FALSE, query |-> {}, body |-> "neither"]
Unset == {<<"<unset>", "">>}    \* request.state has no request_args attribute yet

\* ------------------------------------------------------------ Init
\* No request has arrived; every context variable holds its default.
InitRequests ==
    /\ pc = [r \in Requests |-> "idle"]
    /\ req = [r \in Requests |-> NoReq]
    /\ CTX_USER_ID = [r \in Requests |-> NoUser]
    /\ CTX_BG_TASKS = [r \in Requests |-> NoObj]
    /\ queues = [r \in Requests |-> <<>>]
    /\ authResult = [r \in Requests |-> NoAuth]
    /\ permResult = [r \in Requests |-> NoPerm]
    /\ response = [r \in Requests |-> 0]
    /\ sent = [r \in Requests |-> 0]
    /\ ran = [r \in Requests |-> <<>>]
    /\ raised = [r \in Requests |-> {}]
    /\ escaped = [r \in Requests |-> ""]
    /\ auditLog = <<>>
    /\ requestArgs = [r \in Requests |-> Unset]
    /\ bodyIter = [r \in Requests |-> <<>>]
    /\ origBody = [r \in Requests |-> <<>>]
    /\ declared = [r \in Requests |-> 0]
    /\ clientBody = [r \in Requests |-> <<>>]
    /\ replaced = [r \in Requests |-> FALSE]

WidgetsPath == <<"/", "w">>
DefaultRoleApis == [role \in Roles |-> {<<"GET", WidgetsPath>>}]

\* Two concurrent requests: any subset of the users exists, user 1 is the
\* superuser and has no role, every other user has the role "ra".
Init ==
    /\ users \in SUBSET UserIds
    /\ superusers = users \cap {1}
    /\ userRoles = [u \in UserIds |-> IF u = 1 THEN {} ELSE Roles]
    /\ roleApis = DefaultRoleApis
    /\ InitRequests

\* One request: any users, any superusers among them, any role bindings.
InitOne ==
    /\ users \in SUBSET UserIds
    /\ superusers \in SUBSET users
    /\ userRoles \in [UserIds -> SUBSET Roles]
    /\ roleApis = DefaultRoleApis
    /\ InitRequests

\* ------------------------------------------- middlewares.py: request
\* A dict is a set of <<key, value>> pairs; dict.update replaces the
\* pairs whose key the argument also has.
Keys(d) == {kv[1] : kv \in d}
Update(d, other) == {kv \in d : kv[1] \notin Keys(other)} \cup other

\* Kinds of request body: a JSON object, a JSON value that is not an
\* object (a number), form-encoded data, data that is neither.
BodyKinds == {"json_object", "json_other", "form", "neither"}
Queries == {{}, {<<"k", "query">>}}

\* await request.json(): json.loads of the body.
RequestJson(body) ==
    CASE body = "json_object" -> [exc |-> "", isDict |-> TRUE, value |-> {<<"k", "json">>}]
      [] body = "json_other"  -> [exc |-> "", isDict |-> FALSE, value |-> {}]
      [] OTHER                -> [exc |-> "JSONDecodeError", isDict |-> FALSE, value |-> {}]

\* await request.form(): the fields of a form body; data that is no form
\* makes the parser raise.
RequestForm(body) ==
    IF body = "form" THEN [exc |-> "", value |-> {<<"f", "form">>}]
    ELSE [exc |-> "MultiPartException", value |-> {}]

\* HttpAuditLogMiddleware.get_request_args.  args.update(body) of a value
\* that is not a mapping raises TypeError, which only the inner
\* "except Exception" of the form attempt would have caught.
BodyMethods == {"POST", "PUT", "PATCH"}
GetRequestArgs(method, query, body) ==
    IF method \notin BodyMethods
    THEN [exc |-> "", args |-> query]
    ELSE LET j == RequestJson(body) IN
         IF j.exc = ""
         THEN IF j.isDict
              THEN [exc |-> "", args |-> Update(query, j.value)]
              ELSE [exc |-> "TypeError", args |-> query]
         ELSE LET f == RequestForm(body) IN
              IF f.exc = ""
              THEN [exc |-> "", args |-> Update(query, f.value)]
              ELSE [exc |-> "", args |-> query]

\* ------------------------------------------ middlewares.py: response
\* A body is a sequence of tokens, each standing for a run of bytes of a
\* JSON text: "{" and "}" delimit the top-level object, "c" and "rb" are
\* its fields code and response_body, "[" ... "]" is its field data with
\* a list value whose elements are "o" (an object), "r" (an object with a
\* field response_body) and "n" (a number), "dn" is the field data with
\* the value null; "7" is a JSON number and "x" bytes that are no JSON.  A chunk is a str or bytes piece of a body.
Chunk(isStr, data) == [str |-> isStr, data |-> data]

\* chunk.encode(response.charset) of a chunk that is not bytes.
EncodeChunk(chunk) == IF chunk.str THEN Chunk(FALSE, chunk.data) ELSE chunk

\* b"".join(body_chunks)
RECURSIVE Join(_)
Join(chunks) ==
    IF chunks = <<>> THEN <<>> ELSE Head(chunks).data \o Join(Tail(chunks))

\* Values a logged response body takes.
Logged(kind, fields, data, bytes) ==
    [kind |-> kind, fields |-> fields, data |-> data, bytes |-> bytes]
LoggedNone == Logged("None", {}, <<>>, <<>>)
TooLarge == Logged("too_large", {"code", "msg", "data"}, <<>>, <<>>)
NotJson == Logged("error", {}, <<>>, <<>>)

\* json.loads of a token sequence: the fields of the top-level object and
\* the elements of its data list, or NotJson when the text is malformed.
RECURSIVE ParseFields(_, _), ParseItems(_, _)
ParseFields(toks, acc) ==
    IF toks = <<>> THEN acc
    ELSE IF Head(toks) = "c"
         THEN ParseFields(Tail(toks), [acc EXCEPT !.fields = @ \cup {"code"}])
    ELSE IF Head(toks) = "rb"
         THEN ParseFields(Tail(toks),
                          [acc EXCEPT !.fields = @ \cup {"response_body"}])
    ELSE IF Head(toks) = "dn"
         THEN ParseFields(Tail(toks), [acc EXCEPT !.fields = @ \cup {"data"}])
    ELSE IF Head(toks) = "["
         THEN ParseItems(Tail(toks), [acc EXCEPT !.fields = @ \cup {"data"},
                                                !.data = <<>>])
    ELSE NotJson
ParseItems(toks, acc) ==
    IF toks = <<>> THEN NotJson
    ELSE IF Head(toks) = "]" THEN ParseFields(Tail(toks), acc)
    ELSE IF Head(toks) \in {"o", "r", "n"}
         THEN ParseItems(Tail(toks), [acc EXCEPT !.data = Append(@, Head(toks))])
    ELSE NotJson

JsonLoads(v) ==
    IF v = <<"7">> THEN Logged("number", {}, <<>>, v)
    ELSE IF Len(v) >= 2 /\ v[1] = "{" /\ v[Len(v)] = "}"
         THEN ParseFields(SubSeq(v, 2, Len(v) - 1), Logged("dict", {}, <<>>, <<>>))
         ELSE NotJson

\* HttpAuditLogMiddleware.lenient_json of bytes: the parsed value, or the
\* bytes themselves when they are no JSON.
LenientJson(v) ==
    IF JsonLoads(v) = NotJson THEN Logged("bytes", {}, <<>>, v) ELSE JsonLoads(v)

\* HttpAuditLogMiddleware._async_iter: a new iterator over the items.
AsyncIterExhausted(items) == <<>>
AsyncIter(items) == items

\* item.pop("response_body", None) of an element of the data list.
PopItem(item) == IF item = "r" THEN "o" ELSE item

\* The body of "if any(request.url.path.startswith(path) ...)": the
\* parsed value without response_body; an element that is no object has
\* no pop(key, default), which the except clause turns into None.
StripKeepTop(data) ==
    IF data.kind # "dict" THEN data
    ELSE IF \E i \in 1..Len(data.data) : data.data[i] = "n" THEN LoggedNone
    ELSE [data EXCEPT !.data = [i \in 1..Len(data.data) |-> PopItem(data.data[i])]]
Strip(data) ==
    IF data.kind # "dict" THEN data
    ELSE IF \E i \in 1..Len(data.data) : data.data[i] = "n" THEN LoggedNone
    ELSE [data EXCEPT !.fields = @ \ {"response_body"},
                      !.data = [i \in 1..Len(data.data) |-> PopItem(data.data[i])]]

\* str.startswith
StartsWith(path, prefix) ==
    Len(prefix) <= Len(path) /\ SubSeq(path, 1, Len(prefix)) = prefix

\* Settings of HttpAuditLogMiddleware.__init__.
SensitivePath == <<"/", "a">>
audit_log_paths == {SensitivePath}
max_body_size == 1048576

\* HttpAuditLogMiddleware.get_response_body for a response that
\* call_next returned, which is always a streaming response without the
\* attribute body.  The result is the value to log and the iterator the
\* response is left with.
GetResponseBodyInclusive(path, content_length, body_iterator) ==
    IF content_length # 0 /\ content_length >= max_body_size
    THEN [logged |-> TooLarge, body_iterator |-> body_iterator,
          replaced |-> FALSE]
    ELSE LET body_chunks == [i \in 1..Len(body_iterator) |->
                                EncodeChunk(body_iterator[i])]
             body == Join(body_chunks)
         IN [logged |-> IF \E prefix \in audit_log_paths : StartsWith(path, prefix)
                        THEN Strip(LenientJson(body))
                        ELSE LenientJson(body),
             body_iterator |-> AsyncIter(body_chunks),
             replaced |-> TRUE]
GetResponseBody(path, content_length, body_iterator) ==
    IF content_length # 0 /\ content_length > max_body_size
    THEN [logged |-> TooLarge, body_iterator |-> body_iterator,
          replaced |-> FALSE]
    ELSE LET body_chunks == [i \in 1..Len(body_iterator) |->
                                EncodeChunk(body_iterator[i])]
             body == Join(body_chunks)
         IN [logged |-> IF \E prefix \in audit_log_paths : StartsWith(path, prefix)
                        THEN Strip(LenientJson(body))
                        ELSE LenientJson(body),
             body_iterator |-> AsyncIter(body_chunks),
             replaced |-> TRUE]

\* The JSONResponse {code, msg, data} of the exception handlers.
ErrorChunks == <<Chunk(FALSE, <<"{", "c", "dn", "}">>)>>

\* The response an exception handler renders for request r.
ErrorResponse(r, status) ==
    /\ response' = [response EXCEPT ![r] = status]
    /\ origBody' = [origBody EXCEPT ![r] = ErrorChunks]
    /\ bodyIter' = [bodyIter EXCEPT ![r] = ErrorChunks]
    /\ declared' = [declared EXCEPT ![r] = Len(Join(ErrorChunks))]

\* ------------------------------------------------------- the pipeline
\* An HTTP request arrives; the server hands it to the middleware stack.
\* Requests are named in their order of arrival.
\* dom bounds the inputs: the methods, paths, tokens, queries and bodies
\* of requests and the responses of handlers.
Receive(r, dom) ==
    /\ pc[r] = "idle"
    /\ r = "R2" => pc["R1"] # "idle"
    /\ \E m \in dom.methods, p \in dom.paths, t \in dom.tokens,
          prot \in BOOLEAN, q \in dom.queries, b \in dom.bodies :
         req' = [req EXCEPT ![r] = [method |-> m, path |-> p, token |-> t,
                                    protected |-> prot, query |-> q,
                                    body |-> b]]
    /\ pc' = [pc EXCEPT ![r] = "bg_before"]
    /\ UNCHANGED <<datastore, CTX_USER_ID, CTX_BG_TASKS, queues, authResult,
                   permResult, response, sent, ran, raised, escaped, auditLog,
                   payload>>

\* After the awaited downstream call of SimpleBaseMiddleware.__call__
\* has ended: after_request runs only when the call returned.
AfterDownstreamFinally(returned) == "bg_after"
AfterDownstream(returned) == IF returned THEN "bg_after" ELSE "failed"

\* BgTasks.init_bg_tasks_obj: "bg_tasks = BackgroundTasks()", a new
\* object for every call; the call made for request r creates object r.
NewBgTasksSingleton(r) == "R1"
NewBgTasks(r) == r

\* SimpleBaseMiddleware.__call__ up to before_request, which for
\* BackGroundTaskMiddleware is BgTasks.init_bg_tasks_obj.
BgBeforeRequest(r) ==
    /\ pc[r] = "bg_before"
    /\ queues' = [queues EXCEPT ![NewBgTasks(r)] = <<>>]
    /\ CTX_BG_TASKS' = CtxSet(CTX_BG_TASKS, r, NewBgTasks(r))
    /\ pc' = [pc EXCEPT ![r] = "audit_before"]
    /\ UNCHANGED <<datastore, req, CTX_USER_ID, authResult, permResult,
                   response, sent, ran, raised, escaped, auditLog,
                   payload>>

\* HttpAuditLogMiddleware.dispatch up to call_next; the router then
\* resolves the dependencies of a protected route or calls the handler.
\* before_request stores get_request_args in request.state; an
\* exception of it leaves dispatch before call_next.
AuditBeforeRequest(r) ==
    /\ pc[r] = "audit_before"
    /\ LET request_args == GetRequestArgs(req[r].method, req[r].query,
                                          req[r].body)
       IN IF request_args.exc = ""
          THEN /\ requestArgs' = [requestArgs EXCEPT ![r] = request_args.args]
               /\ pc' = [pc EXCEPT ![r] =
                           IF req[r].protected THEN "auth" ELSE "handler"]
               /\ UNCHANGED escaped
          ELSE /\ escaped' = [escaped EXCEPT ![r] = request_args.exc]
               /\ pc' = [pc EXCEPT ![r] = AfterDownstream(FALSE)]
               /\ UNCHANGED requestArgs
    /\ UNCHANGED <<datastore, req, CTX_USER_ID, CTX_BG_TASKS, queues,
                   authResult, permResult, response, sent, ran, raised,
                   auditLog, bodyIter, origBody, declared, clientBody,
                   replaced>>

\* Where a request goes after a dependency: on to the next dependency or
\* the handler when it returned, to the exception handler's response
\* (and so back through the audit after-hook) when it raised.
AfterDependsIgnored(status, next) == next
AfterDepends(status, next) == IF status = 200 THEN next ELSE "audit_after"

\* Depends(AuthControl.is_authed) of a protected route.  A missing token
\* header fails request validation (422); an HTTPException is rendered by
\* HttpExcHandle with its status code.
Authenticate(r) ==
    /\ pc[r] = "auth"
    /\ LET res == IF req[r].token[1] = "none"
                  THEN AuthFail(422, "RequestValidationError")
                  ELSE IsAuthed(req[r].token, users)
       IN /\ authResult' = [authResult EXCEPT ![r] = res]
          /\ CTX_USER_ID' = PublishUser(CTX_USER_ID, r, res)
          /\ pc' = [pc EXCEPT ![r] = AfterDepends(res.status, "perm")]
          /\ IF res.status = 200
             THEN UNCHANGED <<response, origBody, bodyIter, declared>>
             ELSE ErrorResponse(r, res.status)
    /\ UNCHANGED <<datastore, req, CTX_BG_TASKS, queues, permResult, sent,
                   ran, raised, escaped, auditLog, requestArgs, clientBody,
                   replaced>>

\* Depends(PermissionControl.has_permission) with the identity that
\* is_authed returned.
AuthorizeCached(r) ==
    /\ pc[r] = "perm"
    /\ LET prior == {q \in Requests \ {r} :
                        /\ permResult[q].status # 0
                        /\ authResult[q].user = authResult[r].user
                        /\ req[q].method = req[r].method
                        /\ req[q].path = req[r].path}
           res == IF prior # {}
                  THEN permResult[CHOOSE q \in prior : TRUE]
                  ELSE HasPermission(authResult[r].user, req[r].method,
                                     req[r].path, superusers, userRoles,
                                     roleApis)
       IN /\ permResult' = [permResult EXCEPT ![r] = res]
          /\ pc' = [pc EXCEPT ![r] = AfterDepends(res.status, "handler")]
          /\ IF res.status = 200
             THEN UNCHANGED <<response, origBody, bodyIter, declared>>
             ELSE ErrorResponse(r, res.status)
    /\ UNCHANGED <<datastore, req, CTX_USER_ID, CTX_BG_TASKS, queues,
                   authResult, sent, ran, raised, escaped, auditLog,
                   requestArgs, clientBody, replaced>>
Authorize(r) ==
    /\ pc[r] = "perm"
    /\ LET res == HasPermission(authResult[r].user, req[r].method,
                                req[r].path, superusers, userRoles, roleApis)
       IN /\ permResult' = [permResult EXCEPT ![r] = res]
          /\ pc' = [pc EXCEPT ![r] = AfterDepends(res.status, "handler")]
          /\ IF res.status = 200
             THEN UNCHANGED <<response, origBody, bodyIter, declared>>
             ELSE ErrorResponse(r, res.status)
    /\ UNCHANGED <<datastore, req, CTX_USER_ID, CTX_BG_TASKS, queues,
                   authResult, sent, ran, raised, escaped, auditLog,
                   requestArgs, clientBody, replaced>>

\* Tasks request r has enqueued so far, over all BackgroundTasks objects.
RECURSIVE CountOf(_, _)
CountOf(tasks, r) ==
    IF tasks = <<>> THEN 0
    ELSE (IF Head(tasks)[1] = r THEN 1 ELSE 0) + CountOf(Tail(tasks), r)

RECURSIVE SumOver(_, _)
SumOver(S, r) ==
    IF S = {} THEN 0
    ELSE LET q == CHOOSE x \in S : TRUE
         IN CountOf(queues[q], r) + SumOver(S \ {q}, r)

Added(r) == SumOver(Requests, r)

\* BgTasks.add_task called by the route handler: the task is appended to
\* the object found in the caller's context.  A task is named by the
\* request that enqueued it and its rank among that request's tasks.
AddTask(qs, ctx, r, task) ==
    LET bg_tasks == CtxGet(ctx, r)
    IN [qs EXCEPT ![bg_tasks] = Append(qs[bg_tasks], task)]

HandlerAddTask(r) ==
    /\ pc[r] = "handler"
    /\ Added(r) < MaxTasks
    /\ queues' = AddTask(queues, CTX_BG_TASKS, r, <<r, Added(r) + 1>>)
    /\ UNCHANGED <<datastore, pc, req, CTX_USER_ID, CTX_BG_TASKS, authResult,
                   permResult, response, sent, ran, raised, escaped, auditLog,
                   payload>>

\* The handler returns its response.
HandlerReturn(r, dom) ==
    /\ pc[r] = "handler"
    /\ response' = [response EXCEPT ![r] = 200]
    /\ \E resp \in dom.responses :
         /\ origBody' = [origBody EXCEPT ![r] = resp.chunks]
         /\ bodyIter' = [bodyIter EXCEPT ![r] = resp.chunks]
         /\ declared' = [declared EXCEPT ![r] = resp.content_length]
    /\ pc' = [pc EXCEPT ![r] = "audit_after"]
    /\ UNCHANGED <<datastore, req, CTX_USER_ID, CTX_BG_TASKS, queues,
                   authResult, permResult, sent, ran, raised, escaped, auditLog,
                   requestArgs, clientBody, replaced>>

\* The handler raises an exception no handler is registered for: it
\* leaves call_next and the awaited downstream call of both middlewares.
HandlerRaise(r) ==
    /\ pc[r] = "handler"
    /\ escaped' = [escaped EXCEPT ![r] = "handler_error"]
    /\ pc' = [pc EXCEPT ![r] = AfterDownstream(FALSE)]
    /\ UNCHANGED <<datastore, req, CTX_USER_ID, CTX_BG_TASKS, queues,
                   authResult, permResult, response, sent, ran, raised, auditLog,
                   payload>>

\* The transport cancels the request while the downstream call of
\* BackGroundTaskMiddleware is awaited.
Downstream == {"audit_before", "auth", "perm", "handler", "audit_after", "send"}

Cancel(r) ==
    /\ pc[r] \in Downstream
    /\ escaped' = [escaped EXCEPT ![r] = "CancelledError"]
    /\ pc' = [pc EXCEPT ![r] = AfterDownstream(FALSE)]
    /\ UNCHANGED <<datastore, req, CTX_USER_ID, CTX_BG_TASKS, queues,
                   authResult, permResult, response, sent, ran, raised, auditLog,
                   payload>>

\* re.search(pattern, path, re.I) for a literal pattern: the pattern
\* occurs in the path, letters compared without case.
Lower(c) == IF c = "W" THEN "w" ELSE c
LowerSeq(s) == [i \in 1..Len(s) |-> Lower(s[i])]
ReSearchCaseSensitive(pattern, path) ==
    \E i \in 0..(Len(path) - Len(pattern)) :
        SubSeq(path, i + 1, i + Len(pattern)) = pattern
ReSearch(pattern, path) ==
    \E i \in 0..(Len(path) - Len(pattern)) :
        SubSeq(LowerSeq(path), i + 1, i + Len(pattern)) = LowerSeq(pattern)

\* Configuration of HttpAuditLogMiddleware.
methods == {"POST"}
exclude_paths == {<<"/", "W", "/">>}

\* The test of after_request: the method is audited and no exclusion
\* pattern is found in the path.
AuditedNoExclusion(method, path) == method \in methods
Audited(method, path) ==
    /\ method \in methods
    /\ ~ \E pattern \in exclude_paths : ReSearch(pattern, path)

\* user.username of the User row with this id.
Username(u) == <<"user", u>>

\* HttpAuditLogMiddleware.get_request_log: the identity for attribution.
\* Whatever is_authed raises is caught; exc names an exception that
\* leaves get_request_log.
RequestLogUserUncaught(token, us) ==
    IF token[1] = "none"
    THEN [exc |-> "", user_id |-> NoUser, username |-> <<>>]
    ELSE LET res == IsAuthed(token, us) IN
         IF res.status = 200
         THEN [exc |-> "", user_id |-> res.user, username |-> Username(res.user)]
         ELSE [exc |-> "HTTPException", user_id |-> NoUser, username |-> <<>>]
RequestLogUser(token, us) ==
    IF token[1] = "none"
    THEN [exc |-> "", user_id |-> NoUser, username |-> <<>>]
    ELSE LET res == IsAuthed(token, us) IN
         IF res.status = 200
         THEN [exc |-> "", user_id |-> res.user, username |-> Username(res.user)]
         ELSE [exc |-> "", user_id |-> NoUser, username |-> <<>>]

\* HttpAuditLogMiddleware.after_request.
AuditAfterRequest(r) ==
    /\ pc[r] = "audit_after"
    /\ IF Audited(req[r].method, req[r].path)
       THEN LET who == RequestLogUser(req[r].token, users)
                body == GetResponseBody(req[r].path, declared[r], bodyIter[r])
            IN /\ CTX_USER_ID' =
                    IF req[r].token[1] = "none" THEN CTX_USER_ID
                    ELSE PublishUser(CTX_USER_ID, r, IsAuthed(req[r].token, users))
               /\ IF who.exc = ""
                  THEN /\ auditLog' = Append(auditLog,
                            [request |-> r, method |-> req[r].method,
                             path |-> req[r].path, status |-> response[r],
                             user_id |-> who.user_id,
                             username |-> who.username,
                             request_args |-> requestArgs[r],
                             response_body |-> body.logged])
                       /\ bodyIter' = [bodyIter EXCEPT ![r] = body.body_iterator]
                       /\ replaced' = [replaced EXCEPT ![r] = body.replaced]
                       /\ pc' = [pc EXCEPT ![r] = "send"]
                       /\ UNCHANGED escaped
                  ELSE /\ escaped' = [escaped EXCEPT ![r] = who.exc]
                       /\ pc' = [pc EXCEPT ![r] = AfterDownstream(FALSE)]
                       /\ UNCHANGED <<auditLog, bodyIter, replaced>>
       ELSE /\ pc' = [pc EXCEPT ![r] = "send"]
            /\ UNCHANGED <<CTX_USER_ID, auditLog, bodyIter, escaped,
                           replaced>>
    /\ UNCHANGED <<datastore, req, CTX_BG_TASKS, queues, authResult,
                   permResult, response, sent, ran, raised, requestArgs,
                   origBody, declared, clientBody>>

\* dispatch returns the response and the base middleware sends it; the
\* awaited downstream call of BackGroundTaskMiddleware then returns.
SendResponse(r) ==
    /\ pc[r] = "send"
    /\ sent' = [sent EXCEPT ![r] = response[r]]
    /\ clientBody' = [clientBody EXCEPT ![r] =
                        Join([i \in 1..Len(bodyIter[r]) |->
                                 EncodeChunk(bodyIter[r][i])])]
    /\ bodyIter' = [bodyIter EXCEPT ![r] = <<>>]
    /\ pc' = [pc EXCEPT ![r] = AfterDownstream(TRUE)]
    /\ UNCHANGED <<datastore, req, CTX_USER_ID, CTX_BG_TASKS, queues,
                   authResult, permResult, response, ran, raised, escaped,
                   auditLog, requestArgs, origBody, declared,
                   replaced>>

\* BackgroundTasks.__call__: "for task in self.tasks: await task()".
\* A task that raises ends the loop; the list is left as it was.
RECURSIVE RunTasks(_, _)
RunTasks(tasks, failing) ==
    IF tasks = <<>> THEN <<>>
    ELSE IF Head(tasks) \in failing
         THEN <<Head(tasks)>>
         ELSE <<Head(tasks)>> \o RunTasks(Tail(tasks), failing)

Range(s) == {s[i] : i \in 1..Len(s)}

\* BgTasks.execute_tasks in the context of request r; failing is the set
\* of tasks that raise when they run.
ExecuteTasks(r, failing) ==
    LET bg_tasks == CtxGet(CTX_BG_TASKS, r)
        done == IF queues[bg_tasks] # <<>>
                THEN RunTasks(queues[bg_tasks], failing) ELSE <<>>
    IN /\ ran' = [ran EXCEPT ![r] = ran[r] \o done]
       /\ raised' = [raised EXCEPT ![r] = raised[r] \cup (Range(done) \cap failing)]
       /\ escaped' = [escaped EXCEPT ![r] =
                        IF Range(done) \cap failing # {} THEN "task_error"
                        ELSE escaped[r]]

\* BackGroundTaskMiddleware.after_request.
BgAfterRequest(r) ==
    /\ pc[r] = "bg_after"
    /\ \E failing \in SUBSET Range(queues[CtxGet(CTX_BG_TASKS, r)]) :
         ExecuteTasks(r, failing)
    /\ pc' = [pc EXCEPT ![r] = "done"]
    /\ UNCHANGED <<datastore, req, CTX_USER_ID, CTX_BG_TASKS, queues,
                   authResult, permResult, response, sent, auditLog,
                   payload>>

\* One step of the server for request r, its inputs drawn from dom.
Serve(r, dom) ==
    \/ Receive(r, dom)
    \/ BgBeforeRequest(r)
    \/ AuditBeforeRequest(r)
    \/ Authenticate(r)
    \/ Authorize(r)
    \/ HandlerAddTask(r)
    \/ HandlerReturn(r, dom)
    \/ HandlerRaise(r)
    \/ AuditAfterRequest(r)
    \/ SendResponse(r)
    \/ BgAfterRequest(r)

\* One step of request r: a step of the server, or the transport
\* cancelling it.
Step(r, dom) == Serve(r, dom) \/ Cancel(r)

\* Two requests served concurrently by one process.
PairTokens == {<<"dev", 0>>, <<"bad", 0>>, <<"none", 0>>}
                \cup {TokUser[u] : u \in UserIds}

\* The response of a handler that returns a small JSON object.
DefaultResponse == [chunks |-> <<Chunk(FALSE, <<"{", "c", "}">>)>>,
                    content_length |-> 0]

PairDom == [methods |-> Methods, paths |-> {WidgetsPath},
            tokens |-> PairTokens, queries |-> {{}},
            bodies |-> {"json_object"}, responses |-> {DefaultResponse}]

Next == \E r \in Requests : Step(r, PairDom)

Spec == Init /\ [][Next]_vars

\* A single request, over every method, path, token and datastore.
OneDom == [methods |-> Methods, paths |-> Paths, tokens |-> Tokens,
           queries |-> {{}}, bodies |-> {"json_object"},
           responses |-> {DefaultResponse}]

NextOne == Step("R1", OneDom)

SpecOne == InitOne /\ [][NextOne]_vars

\* A single request of an existing non-superuser, over every binding of
\* two roles to users and of permissions to roles.
PermRoles == {"ra", "rb"}
GrantApis == {<<"GET", WidgetsPath>>, <<"POST", <<"/", "w", "/", "1">>>>}

InitPerm ==
    /\ users = UserIds
    /\ superusers = {}
    /\ userRoles \in [UserIds -> SUBSET PermRoles]
    /\ roleApis \in [PermRoles -> SUBSET GrantApis]
    /\ InitRequests

PermDom == [methods |-> Methods, paths |-> Paths,
            tokens |-> {TokUser[u] : u \in UserIds}, queries |-> {{}},
            bodies |-> {"json_object"}, responses |-> {DefaultResponse}]

NextPerm == Step("R1", PermDom)

SpecPerm == InitPerm /\ [][NextPerm]_vars

\* A single request whose handler answers with any of a few bodies and
\* declared lengths, on a plain and on a sensitive-list path.
JsonChunks == <<Chunk(FALSE, <<"{", "c", "rb">>),
                Chunk(FALSE, <<"[", "r", "o", "]", "}">>)>>
AuditBodies == {<<>>,
                JsonChunks,
                <<Chunk(FALSE, <<"x">>), Chunk(FALSE, <<"x", "}">>)>>,
                <<Chunk(FALSE, <<"{", "[", "n", "]", "}">>)>>,
                <<Chunk(FALSE, <<"7">>)>>}
AuditResponses == [chunks : AuditBodies,
                   content_length : {0, max_body_size, max_body_size + 1}]

AuditDom == [methods |-> Methods, paths |-> {WidgetsPath, SensitivePath},
             tokens |-> Tokens, queries |-> {{}}, bodies |-> {"json_object"},
             responses |-> AuditResponses]

NextAudit == Step("R1", AuditDom)

SpecAudit == Init /\ [][NextAudit]_vars

\* A single request over every method with a body, every kind of body
\* and query.
ArgsDom == [methods |-> Methods \cup BodyMethods, paths |-> {WidgetsPath},
            tokens |-> {<<"none", 0>>, <<"dev", 0>>}, queries |-> Queries,
            bodies |-> BodyKinds, responses |-> {DefaultResponse}]

NextArgs == Step("R1", ArgsDom)

SpecArgs == Init /\ [][NextArgs]_vars

\* CRUDBase.update of a user's role bindings or of a role's apis, saved
\* to the datastore while requests are being served.
SetUserRoles(u, roles) ==
    /\ roles # userRoles[u]
    /\ userRoles' = [userRoles EXCEPT ![u] = roles]
    /\ UNCHANGED <<users, superusers, roleApis, pc, req, CTX_USER_ID,
                   CTX_BG_TASKS, queues, authResult, permResult, response,
                   sent, ran, raised, escaped, auditLog, payload>>

SetRoleApis(role, apis) ==
    /\ apis # roleApis[role]
    /\ roleApis' = [roleApis EXCEPT ![role] = apis]
    /\ UNCHANGED <<users, superusers, userRoles, pc, req, CTX_USER_ID,
                   CTX_BG_TASKS, queues, authResult, permResult, response,
                   sent, ran, raised, escaped, auditLog, payload>>

\* Two requests of the same non-superuser for GET on either path, while
\* that user's roles and the role's apis change.
FreshUser == Min(UserIds)
FreshApis == {<<"GET", p>> : p \in Paths}
FreshDom == [methods |-> {"GET"}, paths |-> Paths,
             tokens |-> {TokUser[FreshUser]}, queries |-> {{}},
             bodies |-> {"json_object"}, responses |-> {DefaultResponse}]

InitFresh ==
    /\ users = UserIds
    /\ superusers = {}
    /\ userRoles = [u \in UserIds |-> Roles]
    /\ roleApis = DefaultRoleApis
    /\ InitRequests

NextFresh ==
    \/ \E r \in Requests : Step(r, FreshDom)
    \/ \E roles \in SUBSET Roles : SetUserRoles(FreshUser, roles)
    \/ \E role \in Roles, apis \in SUBSET FreshApis : SetRoleApis(role, apis)

SpecFresh == InitFresh /\ [][NextFresh]_vars

\* A single request that the transport never cancels, on a server that
\* keeps running the request's coroutine while it has a step to take.
NextLive == Serve("R1", OneDom)

SpecLive == InitOne /\ [][NextLive]_vars /\ WF_vars(NextLive)

\* A caller in the request's context invokes BgTasks.execute_tasks once
\* more after the after-hook has run it, with no add_task in between.
ExecuteTasksAgain(r) ==
    /\ pc[r] = "done"
    /\ \E failing \in SUBSET Range(queues[CtxGet(CTX_BG_TASKS, r)]) :
         ExecuteTasks(r, failing)
    /\ pc' = [pc EXCEPT ![r] = "done_twice"]
    /\ UNCHANGED <<datastore, req, CTX_USER_ID, CTX_BG_TASKS, queues,
                   authResult, permResult, response, sent, auditLog,
                   payload>>

NextDrain == NextOne \/ ExecuteTasksAgain("R1")

SpecDrain == InitOne /\ [][NextDrain]_vars

\* ------------------------------------------------------------ claims
InFlight == {"audit_before", "auth", "perm", "handler", "audit_after",
             "send", "bg_after"}

\* C1: every value the current-user slot holds inside request r is the
\* default 0 or the id is_authed resolves from r's own token, whatever
\* the other request does.
C1_UserSlotIsolated ==
    \A r \in Requests :
        CTX_USER_ID[r] \in {NoUser, IsAuthed(req[r].token, users).user}

\* Both requests are in their handlers, authenticated as different users.
C1_Witness ==
    /\ pc["R1"] = "handler" /\ pc["R2"] = "handler"
    /\ CTX_USER_ID["R1"] # NoUser /\ CTX_USER_ID["R2"] # NoUser
    /\ CTX_USER_ID["R1"] # CTX_USER_ID["R2"]

\* C2: a request in flight has its own queue object; a task is stored
\* only in the queue of the request that added it and is run only by
\* that request's execute_tasks.
C2_QueueIsolated ==
    \A r \in Requests :
        /\ pc[r] \in InFlight => CtxGet(CTX_BG_TASKS, r) = r
        /\ \A i \in 1..Len(queues[r]) : queues[r][i][1] = r
        /\ \A i \in 1..Len(ran[r]) : ran[r][i][1] = r

\* R1 has run its tasks while R2, which has also enqueued, is in flight.
C2_Witness ==
    /\ ran["R1"] # <<>>
    /\ pc["R2"] \in InFlight
    /\ queues["R2"] # <<>>
    /\ ran["R2"] = <<>>

\* C3: once the downstream call has returned and the after-hook has run,
\* the tasks run are exactly the tasks enqueued, in enqueue order, each
\* once; no task runs before the downstream call has returned.
C3_ExactlyOnceInOrder ==
    \A r \in Requests :
        /\ pc[r] = "done" => ran[r] = queues[r]
        /\ ran[r] # <<>> => pc[r] = "done"

\* C4: when a task of a request raises in execute_tasks, every task
\* enqueued after it in the same queue is still run.
C4_FailureIsolated ==
    \A r \in Requests :
        raised[r] # {} => Range(queues[r]) \subseteq Range(ran[r])

\* C5: a second execute_tasks in the same context, with no add_task in
\* between, runs no task: what has run is what the first call ran.
C5_DrainIdempotent ==
    \A r \in Requests :
        pc[r] = "done_twice" =>
            \A i, j \in 1..Len(ran[r]) : ran[r][i] = ran[r][j] => i = j

\* C6: when the downstream call is cancelled or raises, the after-hook
\* is not run and none of the request's tasks is ever executed.
C6_NoTasksAfterAbort ==
    \A r \in Requests :
        escaped[r] \in {"handler_error", "CancelledError"} =>
            /\ ran[r] = <<>>
            /\ pc[r] = "failed"

\* The handler enqueued a task and the request was then cancelled.
C6_Witness ==
    /\ escaped["R1"] = "CancelledError"
    /\ queues["R1"] # <<>>
    /\ response["R1"] = 0

\* C7: is_authed answers 401 when the id carried by a validly signed
\* token has no row in the User table, and leaves the slot as it was.
C7_UnknownUserIs401 ==
    \A r \in Requests :
        (/\ authResult[r].status # 0
         /\ req[r].token[1] = "tok"
         /\ req[r].token[2] \notin users) =>
            /\ authResult[r].status = 401
            /\ CTX_USER_ID[r] = NoUser

\* C8: for a token other than "dev", a decode failure gives 401 invalid
\* token, an expired token 401 expired, any other failure of the
\* verification 500 with the error rendered; no identity is returned and
\* the slot is never written.
C8_VerifyFailures ==
    \A r \in Requests :
        LET kind == req[r].token[1]
            res == authResult[r]
        IN kind \in {"bad", "expired", "other"} =>
            /\ CTX_USER_ID[r] = NoUser
            /\ res.status # 0 =>
                 /\ res.user = NoUser
                 /\ res.decoded
                 /\ kind = "bad" =>
                      res.status = 401 /\ res.detail = "invalid token"
                 /\ kind = "expired" =>
                      res.status = 401 /\ res.detail = "login expired"
                 /\ kind = "other" =>
                      res.status = 500 /\ res.detail = Decode(req[r].token).exc

\* An expired token has been rejected and the error response is on its way.
C8_Witness ==
    /\ req["R1"].token[1] = "expired"
    /\ authResult["R1"].status = 401
    /\ response["R1"] = 401
    /\ pc["R1"] = "send"

\* C9: with the token "dev", is_authed does not decode; when the scan of
\* the User table returns an identity, that first identity is returned
\* and its id is published in the caller's slot.
C9_DevBypass ==
    \A r \in Requests :
        (req[r].token[1] = "dev" /\ authResult[r].status # 0) =>
            /\ ~ authResult[r].decoded
            /\ users # {} =>
                 /\ authResult[r].status = 200
                 /\ authResult[r].user = Min(users)
                 /\ CTX_USER_ID[r] = Min(users)

\* "dev" resolved to the first of two users.
C9_Witness ==
    /\ req["R1"].token[1] = "dev"
    /\ Cardinality(users) > 1
    /\ authResult["R1"].status = 200
    /\ CTX_USER_ID["R1"] = Min(users)
    /\ pc["R1"] \in {"perm", "handler"}

\* C10: a superuser passes has_permission for any method and path, and
\* neither its roles nor any role's permissions are fetched.
C10_SuperuserAllowed ==
    \A r \in Requests :
        (permResult[r].status # 0 /\ authResult[r].user \in superusers) =>
            /\ permResult[r].status = 200
            /\ ~ permResult[r].rolesFetched
            /\ permResult[r].apisFetched = {}

\* A superuser bound to no role reached the handler of a path that no
\* role grants.
C10_Witness ==
    /\ pc["R1"] = "handler"
    /\ req["R1"].protected
    /\ authResult["R1"].user \in superusers
    /\ userRoles[authResult["R1"].user] = {}
    /\ <<req["R1"].method, req["R1"].path>> \notin UNION {roleApis[x] : x \in Roles}
    /\ permResult["R1"].status = 200

\* C11: a non-superuser bound to no role is denied with 403 and the
\* message that the user is not bound to a role, and no role's permission
\* set is fetched.
C11_NoRoleDenied ==
    \A r \in Requests :
        LET user == authResult[r].user
        IN (/\ permResult[r].status # 0
            /\ user \notin superusers
            /\ userRoles[user] = {}) =>
               /\ permResult[r].status = 403
               /\ permResult[r].detail = "The user is not bound to a role"
               /\ permResult[r].apisFetched = {}
               /\ response[r] = 403

\* A user without roles has been denied; the 403 is the response.
C11_Witness ==
    /\ permResult["R1"].status = 403
    /\ authResult["R1"].user \notin superusers
    /\ userRoles[authResult["R1"].user] = {}
    /\ response["R1"] = 403
    /\ pc["R1"] = "audit_after"

\* C12: a non-superuser with at least one role is allowed exactly when
\* the pair (method, path) of the request is in the union of the
\* permission sets of its roles, and is denied with 403 otherwise; a
\* permission on a path does not cover a longer path.
C12_ExactPairInUnion ==
    \A r \in Requests :
        LET user == authResult[r].user
        IN (/\ permResult[r].status # 0
            /\ user \notin superusers
            /\ userRoles[user] # {}) =>
               /\ permResult[r].status \in {200, 403}
               /\ permResult[r].status = 200 <=>
                    \E role \in userRoles[user] :
                        <<req[r].method, req[r].path>> \in roleApis[role]

\* GET /w/1 is denied to a user whose roles grant GET /w.
C12_Witness ==
    /\ permResult["R1"].status = 403
    /\ userRoles[authResult["R1"].user] # {}
    /\ req["R1"].method = "GET"
    /\ req["R1"].path = <<"/", "w", "/", "1">>
    /\ \E role \in userRoles[authResult["R1"].user] :
           <<"GET", WidgetsPath>> \in roleApis[role]
    /\ pc["R1"] = "audit_after"

\* The handler of request r has been entered.
HandlerRan(r) ==
    \/ pc[r] = "handler"
    \/ response[r] = 200
    \/ escaped[r] = "handler_error"
    \/ queues[r] # <<>>

\* C13: the handler of a protected route runs only after is_authed and
\* then has_permission have succeeded; after a failed authentication the
\* permission check is not evaluated; after either failure the handler
\* does not run and enqueues no task.
C13_HandlerAfterAuthAndPermission ==
    \A r \in Requests :
        req[r].protected =>
            /\ HandlerRan(r) =>
                 authResult[r].status = 200 /\ permResult[r].status = 200
            /\ authResult[r].status \notin {0, 200} =>
                 pc[r] # "perm" /\ permResult[r] = NoPerm
            /\ (\/ authResult[r].status \notin {0, 200}
                \/ permResult[r].status \notin {0, 200}) =>
                 ~ HandlerRan(r) /\ queues[r] = <<>>

\* A non-superuser passed both checks and its handler enqueued a task.
C13_Witness ==
    /\ req["R1"].protected
    /\ pc["R1"] = "handler"
    /\ authResult["R1"].user \notin superusers
    /\ permResult["R1"].status = 200
    /\ queues["R1"] # <<>>

\* The audit rows of request r.
Entries(r) == {auditLog[i] : i \in {j \in 1..Len(auditLog) : auditLog[j].request = r}}

\* C14: get_response_body leaves the response with a stream of the same
\* chunks in the same order, the client receives the bytes of the
\* original body, and what is logged is read from the concatenation of
\* those chunks.
C14_StreamPreserved ==
    \A r \in Requests :
        /\ (pc[r] = "send" /\ declared[r] <= max_body_size) =>
              bodyIter[r] = origBody[r]
        /\ sent[r] # 0 => clientBody[r] = Join(origBody[r])
        /\ \A e \in Entries(r) :
              (declared[r] <= max_body_size
               /\ ~ StartsWith(req[r].path, SensitivePath)) =>
                  e.response_body = LenientJson(Join(origBody[r]))

\* A body of two chunks was logged and then received whole by the client.
C14_Witness ==
    /\ Len(origBody["R1"]) = 2
    /\ Entries("R1") # {}
    /\ declared["R1"] = 0
    /\ sent["R1"] = 200
    /\ clientBody["R1"] = Join(origBody["R1"])
    /\ clientBody["R1"] # <<>>

\* A pattern occurs in a path, "w" and "W" taken as the same letter.
SameLetter(a, b) == a = b \/ {a, b} = {"w", "W"}
OccursIgnoringCase(pattern, path) ==
    \E i \in 1..Len(path) :
        /\ i + Len(pattern) - 1 <= Len(path)
        /\ \A j \in 1..Len(pattern) : SameLetter(pattern[j], path[i + j - 1])

\* The request is one the audit policy selects.
Selected(r) ==
    /\ req[r].method \in methods
    /\ ~ \E pattern \in exclude_paths : OccursIgnoringCase(pattern, req[r].path)

\* C15: once the audit after-hook has handled the response of a request,
\* exactly one audit row exists for it when its method is audited and no
\* exclusion pattern occurs in its path (case ignored), and none
\* otherwise.
C15_OneEntryIffSelected ==
    \A r \in Requests :
        /\ Cardinality({i \in 1..Len(auditLog) : auditLog[i].request = r}) <= 1
        /\ Entries(r) # {} => Selected(r)
        /\ pc[r] \in {"send", "bg_after", "done"} =>
              (Entries(r) # {} <=> Selected(r))

\* A POST whose path an exclusion pattern matches only when case is
\* ignored was answered without an audit row.
C15_Witness ==
    /\ req["R1"].method = "POST"
    /\ req["R1"].path = <<"/", "w", "/", "1">>
    /\ response["R1"] = 200
    /\ pc["R1"] = "done"
    /\ auditLog = <<>>

\* C16: for a path that starts with a sensitive-list path the logged
\* body has no response_body field, neither at the top level nor in an
\* element of its data list, and the client still receives the body
\* with those fields.
C16_SensitiveStripped ==
    \A r \in Requests :
        StartsWith(req[r].path, SensitivePath) =>
            /\ \A e \in Entries(r) :
                  /\ "response_body" \notin e.response_body.fields
                  /\ \A i \in 1..Len(e.response_body.data) :
                        e.response_body.data[i] # "r"
            /\ sent[r] # 0 => clientBody[r] = Join(origBody[r])

\* The body with response_body at both levels was logged stripped and
\* delivered unchanged.
C16_Witness ==
    /\ req["R1"].path = SensitivePath
    /\ origBody["R1"] = JsonChunks
    /\ sent["R1"] = 200
    /\ clientBody["R1"] = Join(JsonChunks)
    /\ \E e \in Entries("R1") :
          /\ e.response_body.kind = "dict"
          /\ e.response_body.fields = {"code", "data"}
          /\ e.response_body.data = <<"o", "o">>

\* C17: attribution never fails the request: without a token header, or
\* when is_authed fails, the row has user_id 0 and username "" and the
\* response is still sent; when is_authed succeeds the row has the
\* resolved identity's id and username.
C17_AttributionNeverFails ==
    \A r \in Requests :
        LET res == IsAuthed(req[r].token, users)
            anonymous == req[r].token[1] = "none" \/ res.status # 200
        IN /\ escaped[r] # "HTTPException"
           /\ \A e \in Entries(r) :
                 /\ anonymous => e.user_id = NoUser /\ e.username = <<>>
                 /\ ~ anonymous =>
                      e.user_id = res.user /\ e.username = Username(res.user)
           /\ sent[r] # 0 => sent[r] = response[r]

\* A request with an expired token on an open route was logged as
\* anonymous and its response sent.
C17_Witness ==
    /\ req["R1"].token[1] = "expired"
    /\ ~ req["R1"].protected
    /\ \E e \in Entries("R1") : e.user_id = NoUser /\ e.status = 200
    /\ sent["R1"] = 200

\* C18: for POST, PUT and PATCH and every kind of body the before-hook
\* does not raise, so the request goes on to the handler; when neither
\* parse succeeds the snapshot is the query parameters.
C18_RequestArgsNeverRaise ==
    \A r \in Requests :
        req[r].method \in BodyMethods =>
            /\ escaped[r] # "TypeError"
            /\ (requestArgs[r] # Unset /\ req[r].body = "neither") =>
                  requestArgs[r] = req[r].query

C20_HookOrder ==
    \A r \in Requests :
        /\ pc[r] = "audit_before" =>
              /\ CtxGet(CTX_BG_TASKS, r) = r
              /\ requestArgs[r] = Unset
              /\ ~ HandlerRan(r)
        /\ (pc[r] \in {"auth", "perm", "handler"} \/ HandlerRan(r)) =>
              /\ CtxGet(CTX_BG_TASKS, r) = r
              /\ requestArgs[r] # Unset
        /\ pc[r] \in {"bg_before", "audit_before", "auth", "perm", "handler"} =>
              Entries(r) = {} /\ ran[r] = <<>>
        /\ Entries(r) # {} => response[r] # 0
        /\ pc[r] \in {"audit_after", "send"} => ran[r] = <<>>
        /\ ran[r] # <<>> =>
              /\ sent[r] # 0
              /\ Selected(r) => Entries(r) # {}

\* An audited request whose handler enqueued tasks: its row was written
\* and its tasks then ran.
C20_Witness ==
    /\ pc["R1"] = "done"
    /\ Entries("R1") # {}
    /\ Len(ran["R1"]) = MaxTasks
    /\ sent["R1"] = 200

\* C21: the logged body is the placeholder exactly when the response
\* declares a Content-Length greater than 1048576, and then the stream of
\* the response is neither read nor reassigned; with a declared length of
\* 1048576, or none, the stream is read and the real body is logged.
C21_PlaceholderAboveCeiling ==
    \A r \in Requests :
        \A e \in Entries(r) :
            /\ e.response_body = TooLarge <=> declared[r] > 1048576
            /\ declared[r] > 1048576 =>
                  /\ ~ replaced[r]
                  /\ pc[r] = "send" => bodyIter[r] = origBody[r]
            /\ declared[r] <= 1048576 =>
                  /\ replaced[r]
                  /\ ~ StartsWith(req[r].path, SensitivePath) =>
                        e.response_body = LenientJson(Join(origBody[r]))

\* A response declaring 1048577 bytes was logged as the placeholder and
\* its untouched stream delivered to the client.
C21_Witness ==
    /\ declared["R1"] = 1048577
    /\ \E e \in Entries("R1") : e.response_body = TooLarge
    /\ ~ replaced["R1"]
    /\ sent["R1"] = 200
    /\ clientBody["R1"] = Join(origBody["R1"])
    /\ clientBody["R1"] # <<>>

\* C22: every decision of has_permission is the one the roles and
\* permissions stored when it is taken give, whatever was decided for
\* earlier requests: a non-superuser is allowed exactly when one of its
\* current roles currently holds the pair (method, path).
C22_FreshDecisions ==
    [][\A r \in Requests :
          (permResult[r].status = 0 /\ permResult'[r].status # 0) =>
              LET user == authResult[r].user
                  granted == \E role \in userRoles[user] :
                                <<req[r].method, req[r].path>> \in roleApis[role]
              IN permResult'[r].status =
                    IF user \in superusers \/ granted THEN 200 ELSE 403]_vars

\* The same user asked for the same pair twice: allowed in the first
\* request, denied in the second after the pair was revoked.
C22_Witness ==
    /\ authResult["R1"].user = authResult["R2"].user
    /\ authResult["R1"].user # NoUser
    /\ req["R1"].method = req["R2"].method
    /\ req["R1"].path = req["R2"].path
    /\ permResult["R1"].status = 200
    /\ permResult["R2"].status = 403
    /\ permResult["R2"].detail = "Permission denied"
====
